---- MODULE Spec2Model ----
(***************************************************************************)
(* Ingestion-and-retrieval pipeline of the RAG chatbot backend:            *)
(*   app/repositories/vector_store.py     VectorStoreRepository            *)
(*   app/repositories/document_repository.py  DocumentRepository           *)
(*   app/services/document_service.py     DocumentService.ingest_document  *)
(*   app/repositories/chat_repository.py  ChatRepository                   *)
(*   app/services/chat_service.py         ChatService.generate_response    *)
(*                                                                         *)
(* Every await of the code is an interleaving point; every call to the     *)
(* database, the vector backend, the file system or the LLM may raise.     *)
(***************************************************************************)
EXTENDS Integers, Sequences, FiniteSets, TLC

\* ------------------------------------------------------------------ bounds
NumSessions == 2      \* sessions that exist
MaxK == 4             \* largest k passed to similarity_search
MaxBatch == 2         \* longest batch handed directly to add_documents
MaxLimit == 3         \* largest limit passed to get_history
MaxText == 5          \* longest document text handed to the chunker, in characters
MaxChunkSize == 3     \* largest configured chunk_size

VARIABLES
    index,        \* the pgvector collection: entries in insertion order
    documents,    \* table documents: id -> row
    statusLog,    \* per document, the status values written so far, in order
    inv,          \* ingest_document invocations: locals and position
    tempFiles,    \* temporary files present on disk
    lastCall,     \* the latest direct call of the gateway and its outcome
    history,      \* table chat_messages: rows in insertion order
    chat          \* generate_response invocations: locals and position

vars == <<index, documents, statusLog, inv, tempFiles, lastCall, history, chat>>

\* ------------------------------------------------------------------ values
None == "<None>"                       \* Python None where a string may stand

Sessions == 1..NumSessions             \* session UUIDs
Invocations == {1, 2}                  \* two ingest_document tasks in flight

\* str(uuid): the canonical text of a UUID; distinct UUIDs have distinct texts
UUIDText == <<"u1", "u2", "u3", "u4", "u5", "u6", "u7", "u8", "u9", "u10", "u11", "u12">>

str(uuid) == UUIDText[uuid]

\* texts and their embedding: position on a line, cosine distance as the gap
Vocabulary == <<"alpha", "beta", "gamma">>

Texts == {Vocabulary[n] : n \in 1..Len(Vocabulary)}

Embed(text) == CHOOSE n \in 1..Len(Vocabulary) : Vocabulary[n] = text

Distance(a, b) == IF Embed(a) >= Embed(b) THEN Embed(a) - Embed(b) ELSE Embed(b) - Embed(a)

\* the files clients upload: name, declared type, content (text units) and the
\* metadata the loader attaches to what it loads
Uploads == <<
    [filename |-> "a.pdf", mime_type |-> "application/pdf",
     content |-> <<"alpha", "beta">>,
     loader_metadata |-> [source |-> "tmp", session_id |-> "u1",
                          document_id |-> "stale", filename |-> "stale.pdf"]],
    [filename |-> "c.txt", mime_type |-> "text/plain",
     content |-> <<>>, loader_metadata |-> [source |-> "tmp"]],
    [filename |-> "d.png", mime_type |-> "image/png",
     content |-> <<"gamma">>, loader_metadata |-> [source |-> "tmp"]] >>

UploadIds == 1..Len(Uploads)

\* ------------------------------------------------------- vector_store.py
\* dict.update: keys of upd override, the others are kept
MetadataUpdate(md, upd) ==
    [key \in DOMAIN md \cup DOMAIN upd |-> IF key \in DOMAIN upd THEN upd[key] ELSE md[key]]

\* the validation loop of add_documents: some document lacks the key
MissingSessionId(docs) ==
    \E n \in 1..Len(docs) : "session_id" \notin DOMAIN docs[n].metadata

\* entries as stored: the document plus the aadd_documents call that stored it,
\* named by the position of the call's first entry
StoredBatch(docs, batch) ==
    [n \in 1..Len(docs) |->
        [page_content |-> docs[n].page_content, metadata |-> docs[n].metadata,
         by |-> docs[n].by, batch |-> batch]]

\* a store that inserts document by document, validating each as it goes
RECURSIVE ValidPrefix(_)
ValidPrefix(docs) ==
    IF docs = <<>> \/ "session_id" \notin DOMAIN Head(docs).metadata THEN <<>>
    ELSE <<Head(docs)>> \o ValidPrefix(Tail(docs))

add_documents_interleaved(idx, docs, backend_ok) ==
    IF MissingSessionId(docs)
    THEN [index |-> idx \o StoredBatch(ValidPrefix(docs), Len(idx) + 1), raised |-> "ValueError"]
    ELSE IF backend_ok
    THEN [index |-> idx \o StoredBatch(docs, Len(idx) + 1), raised |-> "none"]
    ELSE [index |-> idx, raised |-> "BackendError"]

\* a store that keeps only the first document of a batch
add_documents_truncating(idx, docs, backend_ok) ==
    IF MissingSessionId(docs)
    THEN [index |-> idx, raised |-> "ValueError"]
    ELSE IF backend_ok
    THEN [index |-> idx \o StoredBatch(IF Len(docs) <= 1 THEN docs ELSE <<docs[1]>>, Len(idx) + 1), raised |-> "none"]
    ELSE [index |-> idx, raised |-> "BackendError"]

\* add_documents: validate the whole batch, then one aadd_documents call
add_documents(idx, docs, backend_ok) ==
    IF MissingSessionId(docs)
    THEN [index |-> idx, raised |-> "ValueError"]
    ELSE IF backend_ok
    THEN [index |-> idx \o StoredBatch(docs, Len(idx) + 1), raised |-> "none"]
    ELSE [index |-> idx, raised |-> "BackendError"]

\* the metadata filter of similarity_search
filter_dict_any(session_id) == [x \in {} |-> None]

\* a filter that holds another text form of the UUID (session_id.urn)
filter_dict_urn(session_id) == [session_id |-> "urn:uuid:" \o str(session_id)]

filter_dict(session_id) == [session_id |-> str(session_id)]

\* PGVector: an entry passes the filter when each filter key is present and equal
Matches(metadata, filter) ==
    \A key \in DOMAIN filter : key \in DOMAIN metadata /\ metadata[key] = filter[key]

\* entry m ranks before entry n for the query: nearer, or as near and older
Before(idx, query, m, n) ==
    \/ Distance(query, idx[m].page_content) < Distance(query, idx[n].page_content)
    \/ /\ Distance(query, idx[m].page_content) = Distance(query, idx[n].page_content)
       /\ m < n

RECURSIVE TopK(_, _, _, _)
TopK(idx, query, k, cands) ==
    IF k = 0 \/ cands = {} THEN <<>>
    ELSE LET best == CHOOSE m \in cands : \A n \in cands \ {m} : Before(idx, query, m, n)
         IN  <<idx[best]>> \o TopK(idx, query, k - 1, cands \ {best})

\* a search that takes the k nearest of the whole index and filters them afterwards
asimilarity_search_postfilter(idx, query, k, filter) ==
    SelectSeq(TopK(idx, query, k, 1..Len(idx)), LAMBDA e : Matches(e.metadata, filter))

\* PGVector.asimilarity_search(query, k, filter): filter first, then the k nearest
asimilarity_search(idx, query, k, filter) ==
    TopK(idx, query, k, {n \in 1..Len(idx) : Matches(idx[n].metadata, filter)})

\* similarity_search: the filtered search, or [] when the backend raises
similarity_search_raising(idx, query, session_id, k, backend_ok) ==
    IF backend_ok
    THEN [results |-> asimilarity_search(idx, query, k, filter_dict(session_id)),
          raised |-> "none"]
    ELSE [results |-> <<>>, raised |-> "BackendError"]

similarity_search(idx, query, session_id, k, backend_ok) ==
    IF backend_ok
    THEN [results |-> asimilarity_search(idx, query, k, filter_dict(session_id)),
          raised |-> "none"]
    ELSE [results |-> <<>>, raised |-> "none"]

\* ------------------------------------------------- document_repository.py
\* a primary key that is the same for every row
NewDocumentIdFixed(docs) == NumSessions + 1

\* uuid4 primary keys: a fresh UUID per row
NewDocumentId(docs) == NumSessions + Cardinality(DOMAIN docs) + 1

create_document(docs, session_id, filename, mime_type, file_size) ==
    [d \in DOMAIN docs \cup {NewDocumentId(docs)} |->
        IF d \in DOMAIN docs THEN docs[d]
        ELSE [session_id |-> session_id, filename |-> filename, mime_type |-> mime_type,
              file_size |-> file_size, status |-> "pending"]]

\* UPDATE documents SET status = :status WHERE id = :document_id
update_status(docs, document_id, status) ==
    [d \in DOMAIN docs |->
        IF d = document_id THEN [docs[d] EXCEPT !.status = status] ELSE docs[d]]

Logged(log, docs, document_id, status) ==
    [d \in DOMAIN docs |->
        IF d = document_id /\ d \in DOMAIN log THEN Append(log[d], status)
        ELSE IF d \in DOMAIN log THEN log[d] ELSE <<status>>]

\* --------------------------------------------------- document_service.py
\* loader.load(): one Document holding the file's text and the loader's metadata
loader_load(upload) ==
    << [page_content |-> Uploads[upload].content,
        metadata |-> Uploads[upload].loader_metadata] >>

\* text_splitter.split_documents: the chunks of each loaded document, in order,
\* each with a copy of that document's metadata
RECURSIVE split_documents(_, _)
split_documents(loaded, i) ==
    IF loaded = <<>> THEN <<>>
    ELSE [n \in 1..Len(Head(loaded).page_content) |->
             [page_content |-> Head(loaded).page_content[n],
              metadata |-> Head(loaded).metadata, by |-> i]]
         \o split_documents(Tail(loaded), i)

\* chunk.metadata.setdefault(...): keeps what the loader put there
stamp_keeping(chunk, session_id, document_id, filename) ==
    [chunk EXCEPT !.metadata =
        MetadataUpdate([session_id |-> str(session_id), document_id |-> str(document_id),
                        filename |-> filename], @)]

\* chunk.metadata.update({session_id, document_id, filename})
stamp(chunk, session_id, document_id, filename) ==
    [chunk EXCEPT !.metadata =
        MetadataUpdate(@, [session_id |-> str(session_id),
                           document_id |-> str(document_id), filename |-> filename])]

\* for chunk in chunks: stamp
stamp_all(chunks, session_id, document_id, filename) ==
    [n \in DOMAIN chunks |-> stamp(chunks[n], session_id, document_id, filename)]

SupportedMime == {"application/pdf", "text/plain", "text/markdown"}

Idle == [pc |-> "idle", session_id |-> 0, upload |-> 0, document |-> 0,
         temp_file_path |-> 0, chunks |-> <<>>, error |-> "none", cause |-> "none"]

\* an exception leaves the try block: control goes to the except clause
Raise(i, err) ==
    inv' = [inv EXCEPT ![i].pc = "except", ![i].error = err, ![i].cause = err]

Goto(i, pc) == inv' = [inv EXCEPT ![i].pc = pc]

\* ingest_document is called (by the upload route's background task)
Ingest(i, session_id, upload) ==
    /\ inv[i].pc = "idle"
    /\ IF i = 1 THEN TRUE ELSE inv[i - 1].pc # "idle"
    /\ inv' = [inv EXCEPT ![i] = [Idle EXCEPT !.pc = "create_document",
                                              !.session_id = session_id,
                                              !.upload = upload]]
    /\ UNCHANGED <<index, documents, statusLog, tempFiles, lastCall, history, chat>>

\* 1. document = await self.doc_repo.create_document(...)
CreateDocument(i) ==
    /\ inv[i].pc = "create_document"
    /\ LET u == Uploads[inv[i].upload]
           id == NewDocumentId(documents)
       IN  /\ documents' = create_document(documents, inv[i].session_id, u.filename,
                                           u.mime_type, Len(u.content))
           /\ statusLog' = Logged(statusLog, documents', id, "pending")
           /\ inv' = [inv EXCEPT ![i].pc = "update_processing", ![i].document = id]
    /\ UNCHANGED <<index, tempFiles, lastCall, history, chat>>

CreateDocumentFails(i) ==
    /\ inv[i].pc = "create_document"
    /\ Raise(i, "create_document")
    /\ UNCHANGED <<index, documents, statusLog, tempFiles, lastCall, history, chat>>

\* 2. await self.doc_repo.update_status(document.id, "processing")
UpdateProcessing(i) ==
    /\ inv[i].pc = "update_processing"
    /\ documents' = update_status(documents, inv[i].document, "processing")
    /\ statusLog' = Logged(statusLog, documents, inv[i].document, "processing")
    /\ Goto(i, "tempfile")
    /\ UNCHANGED <<index, tempFiles, lastCall, history, chat>>

UpdateProcessingFails(i) ==
    /\ inv[i].pc = "update_processing"
    /\ Raise(i, "update_status")
    /\ UNCHANGED <<index, documents, statusLog, tempFiles, lastCall, history, chat>>

\* 3. with NamedTemporaryFile(delete=False) as temp_file: write; temp_file_path = name
WriteTempFile(i) ==
    /\ inv[i].pc = "tempfile"
    /\ tempFiles' = tempFiles \cup {i}
    /\ inv' = [inv EXCEPT ![i].pc = "load", ![i].temp_file_path = i]
    /\ UNCHANGED <<index, documents, statusLog, lastCall, history, chat>>

\* the file cannot be created
CreateTempFileFails(i) ==
    /\ inv[i].pc = "tempfile"
    /\ Raise(i, "tempfile")
    /\ UNCHANGED <<index, documents, statusLog, tempFiles, lastCall, history, chat>>

\* the file is created and temp_file.write raises before temp_file_path is set
WriteTempFileFails(i) ==
    /\ inv[i].pc = "tempfile"
    /\ tempFiles' = tempFiles \cup {i}
    /\ Raise(i, "tempfile")
    /\ UNCHANGED <<index, documents, statusLog, lastCall, history, chat>>

\* 4. loader by MIME type; documents = loader.load()
LoadDocument(i) ==
    /\ inv[i].pc = "load"
    /\ Uploads[inv[i].upload].mime_type \in SupportedMime
    /\ Goto(i, "split")
    /\ UNCHANGED <<index, documents, statusLog, tempFiles, lastCall, history, chat>>

UnsupportedType(i) ==
    /\ inv[i].pc = "load"
    /\ Uploads[inv[i].upload].mime_type \notin SupportedMime
    /\ Raise(i, "unsupported")
    /\ UNCHANGED <<index, documents, statusLog, tempFiles, lastCall, history, chat>>

LoadDocumentFails(i) ==
    /\ inv[i].pc = "load"
    /\ Uploads[inv[i].upload].mime_type \in SupportedMime
    /\ Raise(i, "load")
    /\ UNCHANGED <<index, documents, statusLog, tempFiles, lastCall, history, chat>>

\* 5. chunks = self.text_splitter.split_documents(documents)
SplitDocuments(i) ==
    /\ inv[i].pc = "split"
    /\ inv' = [inv EXCEPT ![i].pc = "stamp",
                          ![i].chunks = split_documents(loader_load(inv[i].upload), i)]
    /\ UNCHANGED <<index, documents, statusLog, tempFiles, lastCall, history, chat>>

SplitDocumentsFails(i) ==
    /\ inv[i].pc = "split"
    /\ Raise(i, "split")
    /\ UNCHANGED <<index, documents, statusLog, tempFiles, lastCall, history, chat>>

\* 6. the stamping loop
StampChunks(i) ==
    /\ inv[i].pc = "stamp"
    /\ inv' = [inv EXCEPT ![i].pc = "add_documents",
                          ![i].chunks = stamp_all(inv[i].chunks, inv[i].session_id,
                                                  inv[i].document,
                                                  Uploads[inv[i].upload].filename)]
    /\ UNCHANGED <<index, documents, statusLog, tempFiles, lastCall, history, chat>>

\* 7. await self.vector_repo.add_documents(chunks)
AddDocuments(i) ==
    /\ inv[i].pc = "add_documents"
    /\ \E backend_ok \in BOOLEAN :
        LET r == add_documents(index, inv[i].chunks, backend_ok)
        IN  /\ index' = r.index
            /\ IF r.raised = "none" THEN Goto(i, "update_indexed")
               ELSE Raise(i, r.raised)
    /\ UNCHANGED <<documents, statusLog, tempFiles, lastCall, history, chat>>

\* 8. await self.doc_repo.update_status(document.id, "indexed"); return document.id
UpdateIndexed(i) ==
    /\ inv[i].pc = "update_indexed"
    /\ documents' = update_status(documents, inv[i].document, "indexed")
    /\ statusLog' = Logged(statusLog, documents, inv[i].document, "indexed")
    /\ Goto(i, "finally")
    /\ UNCHANGED <<index, tempFiles, lastCall, history, chat>>

UpdateIndexedFails(i) ==
    /\ inv[i].pc = "update_indexed"
    /\ Raise(i, "update_status")
    /\ UNCHANGED <<index, documents, statusLog, tempFiles, lastCall, history, chat>>

\* except Exception: if document: await update_status(document.id, "failed"); raise
ExceptMarkFailed(i) ==
    /\ inv[i].pc = "except"
    /\ inv[i].document # 0
    /\ documents' = update_status(documents, inv[i].document, "failed")
    /\ statusLog' = Logged(statusLog, documents, inv[i].document, "failed")
    /\ Goto(i, "finally")
    /\ UNCHANGED <<index, tempFiles, lastCall, history, chat>>

\* the status write of the except clause raises: that error replaces the first
ExceptMarkFailedFails(i) ==
    /\ inv[i].pc = "except"
    /\ inv[i].document # 0
    /\ inv' = [inv EXCEPT ![i].pc = "finally", ![i].error = "update_status"]
    /\ UNCHANGED <<index, documents, statusLog, tempFiles, lastCall, history, chat>>

ExceptNoDocument(i) ==
    /\ inv[i].pc = "except"
    /\ inv[i].document = 0
    /\ Goto(i, "finally")
    /\ UNCHANGED <<index, documents, statusLog, tempFiles, lastCall, history, chat>>

\* the value or the error the invocation ends with
Finish(i) == IF inv[i].error = "none" THEN "returned" ELSE "raised"

\* finally: if temp_file_path and os.path.exists(temp_file_path): os.unlink
Cleanup(i) ==
    /\ inv[i].pc = "finally"
    /\ inv[i].temp_file_path # 0 /\ inv[i].temp_file_path \in tempFiles
    /\ tempFiles' = tempFiles \ {inv[i].temp_file_path}
    /\ Goto(i, Finish(i))
    /\ UNCHANGED <<index, documents, statusLog, lastCall, history, chat>>

\* a cleanup whose error leaves the finally clause
CleanupFailsEscalates(i) ==
    /\ inv[i].pc = "finally"
    /\ inv[i].temp_file_path # 0 /\ inv[i].temp_file_path \in tempFiles
    /\ inv' = [inv EXCEPT ![i].pc = "raised", ![i].error = "unlink"]
    /\ UNCHANGED <<index, documents, statusLog, tempFiles, lastCall, history, chat>>

\* os.unlink raises: the warning is logged and nothing else happens
CleanupFails(i) ==
    /\ inv[i].pc = "finally"
    /\ inv[i].temp_file_path # 0 /\ inv[i].temp_file_path \in tempFiles
    /\ Goto(i, Finish(i))
    /\ UNCHANGED <<index, documents, statusLog, tempFiles, lastCall, history, chat>>

CleanupNothing(i) ==
    /\ inv[i].pc = "finally"
    /\ ~(inv[i].temp_file_path # 0 /\ inv[i].temp_file_path \in tempFiles)
    /\ Goto(i, Finish(i))
    /\ UNCHANGED <<index, documents, statusLog, tempFiles, lastCall, history, chat>>

IngestStep(i) ==
    \/ CreateDocument(i) \/ CreateDocumentFails(i)
    \/ UpdateProcessing(i) \/ UpdateProcessingFails(i)
    \/ WriteTempFile(i) \/ CreateTempFileFails(i) \/ WriteTempFileFails(i)
    \/ LoadDocument(i) \/ UnsupportedType(i) \/ LoadDocumentFails(i)
    \/ SplitDocuments(i) \/ SplitDocumentsFails(i)
    \/ StampChunks(i)
    \/ AddDocuments(i)
    \/ UpdateIndexed(i) \/ UpdateIndexedFails(i)
    \/ ExceptMarkFailed(i) \/ ExceptMarkFailedFails(i) \/ ExceptNoDocument(i)
    \/ Cleanup(i) \/ CleanupFails(i) \/ CleanupNothing(i)

\* ------------------------------------------------------------ gateway calls
NoCall == [op |-> "none"]

\* documents a caller may hand to add_documents: one well-tagged document per
\* session at the ends of the range, and the three ways of lacking a session id
GatewayDocs ==
    {[page_content |-> Vocabulary[1], metadata |-> [session_id |-> str(1)], by |-> 0],
     [page_content |-> Vocabulary[3], metadata |-> [session_id |-> str(NumSessions)], by |-> 0],
     [page_content |-> Vocabulary[2], metadata |-> [source |-> "tmp"], by |-> 0],
     [page_content |-> Vocabulary[2], metadata |-> [session_id |-> ""], by |-> 0],
     [page_content |-> Vocabulary[2], metadata |-> [session_id |-> None], by |-> 0]}

Batches == UNION {[1..n -> GatewayDocs] : n \in 0..MaxBatch}

\* a caller runs add_documents(batch)
CallAddDocuments(batch) ==
    /\ Len(index) + Len(batch) <= MaxBatch
    /\ \E backend_ok \in BOOLEAN :
        LET r == add_documents(index, batch, backend_ok)
        IN  /\ index' = r.index
            /\ lastCall' = [op |-> "add_documents", documents |-> batch,
                            raised |-> r.raised]
    /\ UNCHANGED <<documents, statusLog, inv, tempFiles, history, chat>>

\* a caller runs similarity_search(query, session_id, k)
CallSimilaritySearch(query, session_id, k) ==
    /\ \E backend_ok \in BOOLEAN :
        LET r == similarity_search(index, query, session_id, k, backend_ok)
        IN  lastCall' = [op |-> "similarity_search", query |-> query,
                         session_id |-> session_id, k |-> k, backend_ok |-> backend_ok,
                         results |-> r.results, raised |-> r.raised]
    /\ UNCHANGED <<index, documents, statusLog, inv, tempFiles, history, chat>>

Queries == {Vocabulary[1], Vocabulary[3]}

\* ------------------------------------------------------ chat_repository.py
\* created_at = Column(DateTime, server_default=func.now()): the database's clock
\* at the insert, which has not gone back and may not have advanced since the
\* previous insert
Timestamps(rows) ==
    IF rows = <<>> THEN {1}
    ELSE {rows[Len(rows)].created_at, rows[Len(rows)].created_at + 1}

\* what db.add(...) and flush() wrote stays written: the transaction is committed
\* by the request's database session and no later failure takes it back
Committed(rows) == rows

\* a write that never reaches the table
add_message_dropping(rows, session_id, role, content, now) == rows

\* a write that inserts the row twice
add_message_twice(rows, session_id, role, content, now) ==
    rows \o <<[id |-> Len(rows) + 1, session_id |-> session_id, role |-> role,
               content |-> content, created_at |-> now],
              [id |-> Len(rows) + 2, session_id |-> session_id, role |-> role,
               content |-> content, created_at |-> now]>>

\* db.add(ChatMessage(session_id, role, content)); flush; the row's place in the
\* table stands for its primary key
add_message(rows, session_id, role, content, now) ==
    Committed(Append(rows, [id |-> Len(rows) + 1, session_id |-> session_id,
                            role |-> role, content |-> content, created_at |-> now]))

RECURSIVE Reversed(_)
Reversed(seq) == IF seq = <<>> THEN <<>> ELSE Append(Reversed(Tail(seq)), Head(seq))

\* a query without the WHERE clause
SessionRowsAll(rows, session_id) == 1..Len(rows)

\* WHERE session_id == session_id
SessionRows(rows, session_id) == {n \in 1..Len(rows) : rows[n].session_id = session_id}

\* ORDER BY created_at DESC over the rows S: every order the database may answer
\* with; rows of equal created_at come in either order
RECURSIVE OrderByCreatedAtDesc(_, _)
OrderByCreatedAtDesc(rows, S) ==
    IF S = {} THEN {<<>>}
    ELSE UNION {{<<x>> \o p : p \in OrderByCreatedAtDesc(rows, S \ {x})} :
                x \in {y \in S : \A z \in S : rows[y].created_at >= rows[z].created_at}}

\* the session's rows, newest first
NewestFirst(rows, session_id) == OrderByCreatedAtDesc(rows, SessionRows(rows, session_id))

FirstN(seq, n) == SubSeq(seq, 1, IF Len(seq) < n THEN Len(seq) ELSE n)

LastN(seq, n) == SubSeq(seq, IF Len(seq) < n THEN 1 ELSE Len(seq) - n + 1, Len(seq))

\* LIMIT limit, then list(reversed(messages)): the row ids of the window
HistoryWindows(rows, session_id, limit) ==
    {Reversed(FirstN(p, limit)) : p \in NewestFirst(rows, session_id)}

\* the dictionaries get_history returns for a window: role, content, created_at
\* (id tells the rows apart; no reader of the dictionaries looks at it)
AsDicts(rows, window) ==
    [n \in 1..Len(window) |->
        [id |-> window[n], role |-> rows[window[n]].role,
         content |-> rows[window[n]].content,
         created_at |-> rows[window[n]].created_at]]

\* get_history: every answer the query may give
get_history(rows, session_id, limit) ==
    {AsDicts(rows, w) : w \in HistoryWindows(rows, session_id, limit)}

\* ----------------------------------------------------------- chat_service.py
Chats == {1, 2}                        \* two generate_response calls in flight

HistoryLimit == 10
TopKChunks == 4
HistoryWindow == 6

Apology == "I apologize, but I'm having trouble processing your request right now. Please try again later."

\* request.message of the chat route
ChatMessages == {Vocabulary[3]}

\* what the generation backend may answer
Completions == {"reply"}

\* a string as the sequence of its parts: the empty string has none
Parts(text) == IF text = "" THEN <<>> ELSE <<text>>

\* separator.join(texts)
RECURSIVE Join(_, _)
Join(separator, texts) ==
    IF texts = <<>> THEN <<>>
    ELSE IF Len(texts) = 1 THEN Parts(texts[1])
    ELSE Parts(texts[1]) \o <<separator>> \o Join(separator, Tail(texts))

\* a context that lists the documents from the last retrieved to the first
ContextReversed(relevant_docs) ==
    Join("\n\n", [n \in 1..Len(relevant_docs) |->
                     relevant_docs[Len(relevant_docs) + 1 - n].page_content])

\* "\n\n".join([doc.page_content for doc in relevant_docs]) if relevant_docs else ""
Context(relevant_docs) ==
    IF relevant_docs # <<>>
    THEN Join("\n\n", [n \in 1..Len(relevant_docs) |-> relevant_docs[n].page_content])
    ELSE <<>>

\* the messages of history[-6:], mapped by role; other roles are skipped
RECURSIVE HistoryMessages(_)
HistoryMessages(msgs) ==
    IF msgs = <<>> THEN <<>>
    ELSE (IF Head(msgs).role = "user"
          THEN <<[type |-> "human", content |-> Head(msgs).content]>>
          ELSE IF Head(msgs).role = "assistant"
          THEN <<[type |-> "ai", content |-> Head(msgs).content]>>
          ELSE <<>>) \o HistoryMessages(Tail(msgs))

build_messages(user_message, context, hist) ==
    <<[type |-> "system",
       instruction |-> IF context # <<>> THEN "with context" ELSE "plain",
       context |-> context]>>
    \o HistoryMessages(LastN(hist, HistoryWindow))
    \o <<[type |-> "human", content |-> user_message]>>

\* a fallback request that carries a turn besides the current message
fallback_messages_with_turn(message) ==
    <<[type |-> "system", instruction |-> "minimal", context |-> <<>>],
      [type |-> "ai", content |-> message],
      [type |-> "human", content |-> message]>>

fallback_messages(message) ==
    <<[type |-> "system", instruction |-> "minimal", context |-> <<>>],
      [type |-> "human", content |-> message]>>

\* a handler that lets the error through
ExceptPropagates == "raised"

\* generate_response, except Exception: return await self._fallback_response(...)
ExceptTarget == "fallback"

ChatIdle == [pc |-> "idle", session_id |-> 0, user_message |-> "", history |-> <<>>,
             relevant_docs |-> <<>>, assistant_message |-> "", requests |-> <<>>,
             result |-> None, path |-> "none", http |-> 0,
             user_row |-> 0, assistant_row |-> 0, vector_ok |-> TRUE,
             failed |-> "none", fallback |-> "none"]

\* a handler that answers the apology at once, without the fallback call
ChatRaiseApologises(c, step) ==
    chat' = [chat EXCEPT ![c].pc = "returned", ![c].failed = step,
                         ![c].path = "apology", ![c].result = Apology]

\* an exception leaves the try block of generate_response at the step
ChatRaise(c, step) == chat' = [chat EXCEPT ![c].pc = ExceptTarget, ![c].failed = step]

\* the chat route calls generate_response(session_id, request.message)
GenerateResponse(c, session_id, user_message) ==
    /\ chat[c].pc = "idle"
    /\ IF c = 1 THEN TRUE ELSE chat[c - 1].pc # "idle"
    /\ chat' = [chat EXCEPT ![c] = [ChatIdle EXCEPT !.pc = "add_user",
                                                    !.session_id = session_id,
                                                    !.user_message = user_message]]
    /\ UNCHANGED <<index, documents, statusLog, inv, tempFiles, lastCall, history>>

\* 1. await self.chat_repo.add_message(session_id, "user", user_message)
AddUserMessage(c) ==
    /\ chat[c].pc = "add_user"
    /\ \E now \in Timestamps(history) :
        history' = add_message(history, chat[c].session_id, "user",
                               chat[c].user_message, now)
    /\ chat' = [chat EXCEPT ![c].pc = "get_history", ![c].user_row = Len(history) + 1]
    /\ UNCHANGED <<index, documents, statusLog, inv, tempFiles, lastCall>>

AddUserMessageFails(c) ==
    /\ chat[c].pc = "add_user"
    /\ ChatRaise(c, "add_user")
    /\ UNCHANGED <<index, documents, statusLog, inv, tempFiles, lastCall, history>>

\* 2. history = await self.chat_repo.get_history(session_id, limit=10)
GetHistory(c) ==
    /\ chat[c].pc = "get_history"
    /\ \E h \in get_history(history, chat[c].session_id, HistoryLimit) :
        chat' = [chat EXCEPT ![c].pc = "search", ![c].history = h]
    /\ UNCHANGED <<index, documents, statusLog, inv, tempFiles, lastCall, history>>

GetHistoryFails(c) ==
    /\ chat[c].pc = "get_history"
    /\ ChatRaise(c, "get_history")
    /\ UNCHANGED <<index, documents, statusLog, inv, tempFiles, lastCall, history>>

\* 3. relevant_docs = await self.vector_repo.similarity_search(user_message, session_id, k=4)
RetrieveContext(c) ==
    /\ chat[c].pc = "search"
    /\ \E backend_ok \in BOOLEAN :
        LET r == similarity_search(index, chat[c].user_message, chat[c].session_id,
                                   TopKChunks, backend_ok)
        IN  IF r.raised = "none"
            THEN chat' = [chat EXCEPT ![c].pc = "generate",
                                      ![c].relevant_docs = r.results,
                                      ![c].vector_ok = backend_ok]
            ELSE chat' = [chat EXCEPT ![c].pc = ExceptTarget, ![c].failed = "search",
                                      ![c].vector_ok = backend_ok]
    /\ UNCHANGED <<index, documents, statusLog, inv, tempFiles, lastCall, history>>

\* 4-6. context, _build_messages, response = await self.llm.ainvoke(messages)
Generate(c) ==
    /\ chat[c].pc = "generate"
    /\ \E completion \in Completions :
        chat' = [chat EXCEPT
            ![c].pc = "add_assistant",
            ![c].assistant_message = completion,
            ![c].requests = Append(@, build_messages(chat[c].user_message,
                                                     Context(chat[c].relevant_docs),
                                                     chat[c].history))]
    /\ UNCHANGED <<index, documents, statusLog, inv, tempFiles, lastCall, history>>

GenerateFails(c) ==
    /\ chat[c].pc = "generate"
    /\ chat' = [chat EXCEPT
            ![c].pc = ExceptTarget, ![c].failed = "generate",
            ![c].requests = Append(@, build_messages(chat[c].user_message,
                                                     Context(chat[c].relevant_docs),
                                                     chat[c].history))]
    /\ UNCHANGED <<index, documents, statusLog, inv, tempFiles, lastCall, history>>

\* 7. await self.chat_repo.add_message(session_id, "assistant", assistant_message); return
AddAssistantMessage(c) ==
    /\ chat[c].pc = "add_assistant"
    /\ \E now \in Timestamps(history) :
        history' = add_message(history, chat[c].session_id, "assistant",
                               chat[c].assistant_message, now)
    /\ chat' = [chat EXCEPT ![c].pc = "returned", ![c].path = "full",
                            ![c].result = chat[c].assistant_message,
                            ![c].assistant_row = Len(history) + 1]
    /\ UNCHANGED <<index, documents, statusLog, inv, tempFiles, lastCall>>

AddAssistantMessageFails(c) ==
    /\ chat[c].pc = "add_assistant"
    /\ ChatRaise(c, "add_assistant")
    /\ UNCHANGED <<index, documents, statusLog, inv, tempFiles, lastCall, history>>

\* a fallback that also writes its completion to the history
FallbackRecording(c) ==
    /\ chat[c].pc = "fallback"
    /\ \E completion \in Completions, now \in Timestamps(history) :
        /\ history' = add_message(history, chat[c].session_id, "assistant", completion, now)
        /\ chat' = [chat EXCEPT
                ![c].pc = "returned", ![c].path = "fallback", ![c].result = completion,
                ![c].fallback = "answered",
                ![c].requests = Append(@, fallback_messages(chat[c].user_message))]
    /\ UNCHANGED <<index, documents, statusLog, inv, tempFiles, lastCall>>

\* _fallback_response: one generation call with the minimal request
Fallback(c) ==
    /\ chat[c].pc = "fallback"
    /\ \E completion \in Completions :
        chat' = [chat EXCEPT
            ![c].pc = "returned", ![c].path = "fallback", ![c].result = completion,
            ![c].fallback = "answered",
            ![c].requests = Append(@, fallback_messages(chat[c].user_message))]
    /\ UNCHANGED <<index, documents, statusLog, inv, tempFiles, lastCall, history>>

\* the fallback call raises: the fixed apology is returned
FallbackFails(c) ==
    /\ chat[c].pc = "fallback"
    /\ chat' = [chat EXCEPT
            ![c].pc = "returned", ![c].path = "apology", ![c].result = Apology,
            ![c].fallback = "raised",
            ![c].requests = Append(@, fallback_messages(chat[c].user_message))]
    /\ UNCHANGED <<index, documents, statusLog, inv, tempFiles, lastCall, history>>

\* the chat route: ChatResponse(message), or HTTP 500 when generate_response raised
ChatRoute(c) ==
    /\ chat[c].pc \in {"returned", "raised"}
    /\ chat[c].http = 0
    /\ chat' = [chat EXCEPT ![c].http = IF chat[c].pc = "raised" THEN 500 ELSE 200]
    /\ UNCHANGED <<index, documents, statusLog, inv, tempFiles, lastCall, history>>

ChatStep(c) ==
    \/ AddUserMessage(c) \/ AddUserMessageFails(c)
    \/ GetHistory(c) \/ GetHistoryFails(c)
    \/ RetrieveContext(c)
    \/ Generate(c) \/ GenerateFails(c)
    \/ AddAssistantMessage(c) \/ AddAssistantMessageFails(c)
    \/ Fallback(c) \/ FallbackFails(c)
    \/ ChatRoute(c)

\* ------------------------------- document_service.py: self.text_splitter
\* RecursiveCharacterTextSplitter(chunk_size, chunk_overlap, separators): the
\* chunker that split_documents runs over the text of each loaded page.  A text
\* is the sequence of its characters, each with its place in the document.
Alphabet == {"a", " ", "\n"}

Whitespace == {" ", "\n"}

Separators == <<(<<"\n", "\n">>), (<<"\n">>), (<<".", " ">>), (<<" ">>), (<<>>)>>

AsText(chars) == [n \in 1..Len(chars) |-> [ch |-> chars[n], pos |-> n]]

DocumentTexts == UNION {[1..n -> Alphabet] : n \in 0..MaxText}

\* the separator occurs in the text at place n
MatchesAt(text, separator, n) ==
    /\ n + Len(separator) - 1 <= Len(text)
    /\ \A k \in 1..Len(separator) : text[n + k - 1].ch = separator[k]

\* re.search(separator, text)
Found(text, separator) == \E n \in 1..Len(text) : MatchesAt(text, separator, n)

\* where the matches of re.split start: leftmost first, not overlapping
RECURSIVE MatchStarts(_, _, _)
MatchStarts(text, separator, n) ==
    IF n > Len(text) THEN <<>>
    ELSE IF MatchesAt(text, separator, n)
    THEN <<n>> \o MatchStarts(text, separator, n + Len(separator))
    ELSE MatchStarts(text, separator, n + 1)

\* the text cut before every match: each piece but the first starts with the
\* separator (keep_separator=True)
RECURSIVE CutAt(_, _, _)
CutAt(text, from, starts) ==
    IF starts = <<>> THEN <<SubSeq(text, from, Len(text))>>
    ELSE <<SubSeq(text, from, Head(starts) - 1)>> \o CutAt(text, Head(starts), Tail(starts))

\* _split_text_with_regex: list(text) for the empty separator; empty pieces dropped
split_text_with_regex(text, separator) ==
    LET pieces == IF separator = <<>>
                  THEN [n \in 1..Len(text) |-> <<text[n]>>]
                  ELSE CutAt(text, 1, MatchStarts(text, separator, 1))
    IN  SelectSeq(pieces, LAMBDA piece : piece # <<>>)

RECURSIVE Concat(_)
Concat(pieces) == IF pieces = <<>> THEN <<>> ELSE Head(pieces) \o Concat(Tail(pieces))

RECURSIVE LStrip(_)
LStrip(text) ==
    IF text # <<>> /\ Head(text).ch \in Whitespace THEN LStrip(Tail(text)) ELSE text

RECURSIVE RStrip(_)
RStrip(text) ==
    IF text # <<>> /\ text[Len(text)].ch \in Whitespace
    THEN RStrip(SubSeq(text, 1, Len(text) - 1)) ELSE text

\* _join_docs: "".join(docs).strip(), no chunk when that is empty
join_docs(docs) ==
    LET text == RStrip(LStrip(Concat(docs)))
    IN  IF text = <<>> THEN <<>> ELSE <<text>>

Total(docs) == Len(Concat(docs))

\* _merge_splits, the inner while: pieces leave the window from the front while
\* it is longer than chunk_overlap or has no room for the next piece
RECURSIVE DropFront(_, _, _, _)
DropFront(current_doc, len, chunk_size, chunk_overlap) ==
    IF \/ Total(current_doc) > chunk_overlap
       \/ (Total(current_doc) + len > chunk_size /\ Total(current_doc) > 0)
    THEN DropFront(Tail(current_doc), len, chunk_size, chunk_overlap)
    ELSE current_doc

\* _merge_splits: pieces are gathered up to chunk_size; the pieces kept for the
\* next chunk are whole pieces of total length at most chunk_overlap
RECURSIVE merge_splits(_, _, _, _)
merge_splits(splits, current_doc, chunk_size, chunk_overlap) ==
    IF splits = <<>> THEN join_docs(current_doc)
    ELSE LET d == Head(splits)
         IN  IF Total(current_doc) + Len(d) > chunk_size /\ current_doc # <<>>
             THEN join_docs(current_doc)
                  \o merge_splits(Tail(splits),
                                  Append(DropFront(current_doc, Len(d), chunk_size,
                                                   chunk_overlap), d),
                                  chunk_size, chunk_overlap)
             ELSE merge_splits(Tail(splits), Append(current_doc, d),
                               chunk_size, chunk_overlap)

\* _split_text, the choice of the separator: the first of the list that is ""
\* or occurs in the text, the last one when none does
RECURSIVE SeparatorFor(_, _, _)
SeparatorFor(text, separators, i) ==
    IF i > Len(separators)
    THEN [separator |-> separators[Len(separators)], new_separators |-> <<>>]
    ELSE IF separators[i] = <<>>
    THEN [separator |-> <<>>, new_separators |-> <<>>]
    ELSE IF Found(text, separators[i])
    THEN [separator |-> separators[i],
          new_separators |-> SubSeq(separators, i + 1, Len(separators))]
    ELSE SeparatorFor(text, separators, i + 1)

RECURSIVE split_text(_, _, _, _)
RECURSIVE SplitLoop(_, _, _, _, _)
\* _split_text, the loop over the pieces: pieces shorter than chunk_size are
\* merged, a longer one is split again with the remaining separators
SplitLoop(splits, good_splits, new_separators, chunk_size, chunk_overlap) ==
    IF splits = <<>>
    THEN merge_splits(good_splits, <<>>, chunk_size, chunk_overlap)
    ELSE LET piece == Head(splits)
         IN  IF Len(piece) < chunk_size
             THEN SplitLoop(Tail(splits), Append(good_splits, piece), new_separators,
                            chunk_size, chunk_overlap)
             ELSE merge_splits(good_splits, <<>>, chunk_size, chunk_overlap)
                  \o (IF new_separators = <<>> THEN <<piece>>
                      ELSE split_text(piece, new_separators, chunk_size, chunk_overlap))
                  \o SplitLoop(Tail(splits), <<>>, new_separators,
                               chunk_size, chunk_overlap)

split_text(text, separators, chunk_size, chunk_overlap) ==
    LET choice == SeparatorFor(text, separators, 1)
    IN  SplitLoop(split_text_with_regex(text, choice.separator), <<>>,
                  choice.new_separators, chunk_size, chunk_overlap)

\* the chunker is run once over a document text with a configuration
CallSplitText(chars, chunk_size, chunk_overlap) ==
    /\ lastCall = NoCall
    /\ lastCall' = [op |-> "split_text", text |-> chars,
                    chunk_size |-> chunk_size, chunk_overlap |-> chunk_overlap,
                    chunks |-> split_text(AsText(chars), Separators,
                                          chunk_size, chunk_overlap)]
    /\ UNCHANGED <<index, documents, statusLog, inv, tempFiles, history, chat>>

\* ------------------------------------------------------------ specifications
Init ==
    /\ index = <<>>
    /\ documents = [d \in {} |-> None]
    /\ statusLog = [d \in {} |-> <<>>]
    /\ inv = [i \in Invocations |-> Idle]
    /\ tempFiles = {}
    /\ lastCall = NoCall
    /\ history = <<>>
    /\ chat = [c \in Chats |-> ChatIdle]

\* the ingestion pipeline, two invocations in flight
Next ==
    \/ \E i \in Invocations, s \in Sessions, u \in UploadIds : Ingest(i, s, u)
    \/ \E i \in Invocations : IngestStep(i)

Spec == Init /\ [][Next]_vars

\* the gateway called directly
NextGateway ==
    \/ \E batch \in Batches : CallAddDocuments(batch)
    \/ \E q \in Queries, s \in Sessions, k \in 1..MaxK : CallSimilaritySearch(q, s, k)

SpecGateway == Init /\ [][NextGateway]_vars

\* the index after upload 1 has been ingested for the session as document d
IndexAfterIngest(idx, session_id, d) ==
    add_documents(idx, stamp_all(split_documents(loader_load(1), 1), session_id, d,
                                 Uploads[1].filename), TRUE).index

\* indexes that ingestions leave behind: empty, one session's document, two sessions'
SeededIndexes ==
    {<<>>,
     IndexAfterIngest(<<>>, 1, NumSessions + 1),
     IndexAfterIngest(IndexAfterIngest(<<>>, 1, NumSessions + 1), NumSessions, NumSessions + 2)}

InitChat ==
    /\ index \in SeededIndexes
    /\ documents = [d \in {} |-> None]
    /\ statusLog = [d \in {} |-> <<>>]
    /\ inv = [i \in Invocations |-> Idle]
    /\ tempFiles = {}
    /\ lastCall = NoCall
    /\ history = <<>>
    /\ chat = [c \in Chats |-> ChatIdle]

\* chat turns over an index that ingestions have filled
NextChat ==
    \/ \E c \in Chats, s \in Sessions, m \in ChatMessages : GenerateResponse(c, s, m)
    \/ \E c \in Chats : ChatStep(c)

SpecChat == InitChat /\ [][NextChat]_vars

\* the chunker over every short text, for every chunk_size and smaller overlap
NextSplit ==
    \E chars \in DocumentTexts, chunk_size \in 1..MaxChunkSize :
        \E chunk_overlap \in 0..(chunk_size - 1) :
            CallSplitText(chars, chunk_size, chunk_overlap)

SpecSplit == Init /\ [][NextSplit]_vars

\* ------------------------------------------------------------------ claims
Ended(i) == inv[i].pc \in {"returned", "raised"}

Status(d) == documents[d].status

\* the entries of the index stamped with document d, in insertion order
EntriesOf(d) ==
    SelectSeq(index, LAMBDA e : "document_id" \in DOMAIN e.metadata
                                /\ e.metadata.document_id = str(d))

PageContents(entries) == [n \in 1..Len(entries) |-> entries[n].page_content]

\* C1. Session isolation: in every reachable state of the pipeline, a
\* similarity_search for session B, whatever the query, k and the backend's
\* health, returns only entries stamped with B's id, and none that was ingested
\* under another session.  (The search reads the index and writes nothing, so its
\* result in each reachable state is its result under every interleaving.)
C1_SessionIsolation ==
    \A q \in Queries, B \in Sessions, k \in 1..MaxK, backend_ok \in BOOLEAN :
        LET r == similarity_search(index, q, B, k, backend_ok).results
        IN  \A n \in 1..Len(r) :
                /\ "session_id" \in DOMAIN r[n].metadata
                /\ r[n].metadata.session_id = str(B)
                /\ inv[r[n].by].session_id = B

\* both sessions have entries in the index, one of them loaded with another
\* session's id in its metadata, and a search for session 2 returns something
C1_Witness ==
    /\ \E m, n \in 1..Len(index) :
        /\ inv[index[m].by].session_id = 1
        /\ inv[index[n].by].session_id = 2
        /\ inv[index[n].by].upload = 1
    /\ Len(similarity_search(index, "alpha", 2, MaxK, TRUE).results) > 0

NonEmptySessionId(metadata) ==
    "session_id" \in DOMAIN metadata /\ metadata.session_id \notin {"", None}

\* C2. add_documents fails with a validation error whenever some entry has no
\* session id or an empty one (missing key, "" or None), and succeeds only when
\* every entry carries a non-empty session id.
C2_RejectsMissingOrEmpty ==
    lastCall.op = "add_documents" =>
        LET docs == lastCall.documents
            bad == \E n \in 1..Len(docs) : ~NonEmptySessionId(docs[n].metadata)
        IN  /\ bad => lastCall.raised = "ValueError"
            /\ lastCall.raised = "none" => ~bad

\* C3. A batch rejected for a missing session id leaves the index unchanged: no
\* entry of it is stored, not even valid entries placed before the invalid one.
C3_RejectionStoresNothing ==
    [][(lastCall'.op = "add_documents" /\ lastCall'.raised = "ValueError")
        => index' = index]_vars

\* a rejected batch whose first entry is valid and whose second lacks the key
C3_Witness ==
    /\ lastCall.op = "add_documents"
    /\ lastCall.raised = "ValueError"
    /\ Len(lastCall.documents) = 2
    /\ NonEmptySessionId(lastCall.documents[1].metadata)
    /\ "session_id" \notin DOMAIN lastCall.documents[2].metadata

\* C4. The status values written for a document form a prefix of
\* pending, processing, (indexed | failed), whichever step fails.
C4_StatusSequence ==
    \A d \in DOMAIN statusLog :
        statusLog[d] \in {<<"pending">>, <<"pending", "processing">>,
                          <<"pending", "processing", "indexed">>,
                          <<"pending", "processing", "failed">>}

\* errors of steps 3-6: temporary file and loader (parsing), chunking, indexing
StepErrors == {"tempfile", "unsupported", "load", "split", "ValueError", "BackendError"}

\* C5. When parsing, chunking, stamping or indexing fails, the invocation ends
\* with the document failed and that error raised; it returns a document id only
\* for a document whose status is indexed.
C5_FailureSurfaces ==
    \A i \in Invocations :
        Ended(i) =>
            /\ inv[i].cause \in StepErrors =>
                /\ inv[i].pc = "raised"
                /\ inv[i].error = inv[i].cause
                /\ Status(inv[i].document) = "failed"
            /\ inv[i].pc = "returned" =>
                /\ inv[i].document # 0
                /\ Status(inv[i].document) = "indexed"

\* C6. An invocation that created a document record ends with that document
\* indexed or failed, whichever step fails.
C6_EndsTerminal ==
    \A i \in Invocations :
        (Ended(i) /\ inv[i].document # 0) =>
            Status(inv[i].document) \in {"indexed", "failed"}

Stamped(chunk, i) ==
    /\ {"session_id", "document_id", "filename"} \subseteq DOMAIN chunk.metadata
    /\ chunk.metadata.session_id = str(inv[i].session_id)
    /\ chunk.metadata.document_id = str(inv[i].document)
    /\ chunk.metadata.filename = Uploads[inv[i].upload].filename

\* C7. When an invocation calls add_documents every one of its chunks carries the
\* invocation's session id, the id of the record it created and the filename,
\* whatever the loader put under those keys; so does every entry it has stored.
C7_StampedBeforeIndexed ==
    \A i \in Invocations :
        /\ inv[i].pc = "add_documents" =>
            /\ inv[i].document \in DOMAIN documents
            /\ Len(inv[i].chunks) = Len(split_documents(loader_load(inv[i].upload), i))
            /\ \A n \in 1..Len(inv[i].chunks) : Stamped(inv[i].chunks[n], i)
        /\ \A n \in 1..Len(index) : index[n].by = i => Stamped(index[n], i)

\* an invocation for session 2 has stored a chunk that the loader had tagged
\* with the id of session 1
C7_Witness ==
    \E i \in Invocations, n \in 1..Len(index) :
        /\ index[n].by = i
        /\ inv[i].session_id = 2
        /\ "session_id" \in DOMAIN Uploads[inv[i].upload].loader_metadata
        /\ Uploads[inv[i].upload].loader_metadata.session_id = str(1)

\* C8. Whenever a document is indexed, the index holds exactly the chunks the
\* chunker produced for it, in order, each once, all stored by one add_documents
\* call; a document with no chunk has no entry.
C8_ChunkCompleteness ==
    \A i \in Invocations :
        (inv[i].document # 0 /\ Status(inv[i].document) = "indexed") =>
            LET entries == EntriesOf(inv[i].document)
                chunks == split_documents(loader_load(inv[i].upload), i)
            IN  /\ PageContents(entries) = PageContents(chunks)
                /\ \A m, n \in 1..Len(entries) : entries[m].batch = entries[n].batch
                /\ \A n \in 1..Len(entries) : entries[n].by = i

\* one indexed document of two chunks and one indexed document of none
C8_Witness ==
    \E i, j \in Invocations :
        /\ inv[i].document # 0 /\ Status(inv[i].document) = "indexed"
        /\ Len(EntriesOf(inv[i].document)) = 2
        /\ inv[j].document # 0 /\ Status(inv[j].document) = "indexed"
        /\ Len(Uploads[inv[j].upload].content) = 0

\* C9. similarity_search never raises: when the backend raises it returns the
\* empty list, and the call leaves the index as it was.
C9_SearchNeverRaises ==
    [][lastCall'.op = "similarity_search" =>
        /\ lastCall'.raised = "none"
        /\ ~lastCall'.backend_ok => lastCall'.results = <<>>
        /\ index' = index]_vars

\* the backend raised on a search of a session that has entries in the index
C9_Witness ==
    /\ lastCall.op = "similarity_search"
    /\ ~lastCall.backend_ok
    /\ lastCall.results = <<>>
    /\ \E n \in 1..Len(index) : index[n].metadata.session_id = str(lastCall.session_id)

ChatEnded(c) == chat[c].pc \in {"returned", "raised"}

\* C11. The two-tier ladder: a finished generate_response returned the full-path
\* completion exactly when no step of the full path raised; otherwise the
\* fallback generation call was made, with the minimal request, and its
\* completion was returned exactly when that call answered; the fixed apology
\* was returned exactly when the full path and the fallback call both failed.
C11_TwoTierLadder ==
    \A c \in Chats :
        ChatEnded(c) =>
            /\ chat[c].pc = "returned"
            /\ (chat[c].path = "full") <=> (chat[c].failed = "none")
            /\ chat[c].failed = "none" =>
                /\ chat[c].result = chat[c].assistant_message
                /\ chat[c].result \in Completions
                /\ chat[c].fallback = "none"
            /\ chat[c].failed # "none" =>
                /\ chat[c].fallback \in {"answered", "raised"}
                /\ chat[c].requests # <<>>
                /\ chat[c].requests[Len(chat[c].requests)]
                       = fallback_messages(chat[c].user_message)
            /\ (chat[c].path = "fallback")
                   <=> (chat[c].failed # "none" /\ chat[c].fallback = "answered")
            /\ chat[c].path = "fallback" => chat[c].result \in Completions
            /\ (chat[c].result = Apology)
                   <=> (chat[c].failed # "none" /\ chat[c].fallback = "raised")

\* one turn lost its assistant-message write and returned the fallback call's
\* completion; another failed at generation and again in the fallback call
C11_Witness ==
    \E c, d \in Chats :
        /\ chat[c].pc = "returned" /\ chat[c].failed = "add_assistant"
        /\ chat[c].path = "fallback" /\ chat[c].result \in Completions
        /\ chat[d].pc = "returned" /\ chat[d].failed = "generate"
        /\ chat[d].fallback = "raised" /\ chat[d].result = Apology

\* the row the turn's user message was written to is in the table
UserRowKept(c, rows) ==
    /\ chat[c].user_row \in 1..Len(rows)
    /\ rows[chat[c].user_row].session_id = chat[c].session_id
    /\ rows[chat[c].user_row].role = "user"
    /\ rows[chat[c].user_row].content = chat[c].user_message

\* C12. The user message is appended before the turn reads history, retrieves
\* or generates, and it stays: no step removes or changes a row of the history,
\* so after the turn has finished the message is still there whichever later
\* step failed and whether the fallback completion or the apology was returned.
C12_UserMessageKept ==
    [][/\ Len(history') >= Len(history)
       /\ SubSeq(history', 1, Len(history)) = history
       /\ \A c \in Chats :
            /\ chat'[c].pc \in {"idle", "add_user"} =>
                /\ chat'[c].history = <<>>
                /\ chat'[c].relevant_docs = <<>>
                /\ chat'[c].requests = <<>>
            /\ (chat'[c].pc \notin {"idle", "add_user"} /\ chat'[c].failed # "add_user")
                   => UserRowKept(c, history)' ]_vars

\* a turn whose history read failed ended with the apology, another whose
\* assistant-message write failed ended with the fallback completion; both user
\* messages are in the history
C12_Witness ==
    \E c, d \in Chats :
        /\ chat[c].pc = "returned" /\ chat[c].failed = "get_history"
        /\ chat[c].path = "apology" /\ UserRowKept(c, history)
        /\ chat[d].pc = "returned" /\ chat[d].failed = "add_assistant"
        /\ chat[d].path = "fallback" /\ UserRowKept(d, history)

\* the turn has sent its full-path generation request, the first of its requests
FullRequestMade(c) ==
    \/ chat[c].pc = "add_assistant"
    \/ chat[c].path = "full"
    \/ chat[c].failed \in {"generate", "add_assistant"}

\* the history the turn fetched, without the row of its own user message
PriorTurns(c) == SelectSeq(chat[c].history, LAMBDA d : d.id # chat[c].user_row)

\* C13. The full-path generation request is one instruction message, then the
\* window of prior history turns without the turn's own just-appended user
\* message, then the current user message: that message is in the request
\* once, as its last message.
C13_RequestShape ==
    \A c \in Chats :
        FullRequestMade(c) =>
            LET req == chat[c].requests[1]
            IN  /\ req[1].type = "system"
                /\ Tail(req) = HistoryMessages(LastN(PriorTurns(c), HistoryWindow))
                                \o <<[type |-> "human", content |-> chat[c].user_message]>>

\* the rows of the session in the order they were appended
AppendedTo(session_id) == SelectSeq(history, LAMBDA r : r.session_id = session_id)

\* C14. get_history(session, limit) returns min(limit, n) messages of the
\* session's n: the most recently appended ones, oldest first, in non-decreasing
\* creation-time order.
C14_MostRecentOldestFirst ==
    \A s \in Sessions, limit \in 0..MaxLimit :
        \A h \in get_history(history, s, limit) :
            LET mine == AppendedTo(s)
                n == Len(mine)
                m == IF limit < n THEN limit ELSE n
            IN  /\ Len(h) = m
                /\ \A j \in 1..m : h[j].id = mine[n - m + j].id
                /\ \A j \in 1..(m - 1) : h[j].created_at <= h[j + 1].created_at

\* the turns that ran the whole full path
FullPathTurns == {c \in Chats : chat[c].pc = "returned" /\ chat[c].failed = "none"}

AssistantRows == {n \in 1..Len(history) : history[n].role = "assistant"}

\* C15. A turn whose full-path steps all succeeded has appended one assistant
\* message, to its own session's history and after its own user message, and
\* the text it returned is that message's content; the history holds one
\* assistant message for each such turn and no other.
C15_OneAssistantMessage ==
    /\ Cardinality(AssistantRows) = Cardinality(FullPathTurns)
    /\ \A c \in FullPathTurns :
        /\ chat[c].assistant_row \in AssistantRows
        /\ chat[c].user_row \in 1..Len(history)
        /\ chat[c].user_row < chat[c].assistant_row
        /\ history[chat[c].assistant_row].session_id = chat[c].session_id
        /\ history[chat[c].assistant_row].content = chat[c].result
        /\ chat[c].result \in Completions
        /\ \A d \in FullPathTurns : d # c => chat[d].assistant_row # chat[c].assistant_row

\* two turns of one session ran the full path interleaved: the first one's
\* assistant message comes after the second one's user message
C15_Witness ==
    \E c, d \in FullPathTurns :
        /\ c # d /\ chat[c].session_id = chat[d].session_id
        /\ chat[c].user_row < chat[d].user_row
        /\ chat[d].user_row < chat[c].assistant_row
        /\ chat[c].result = history[chat[c].assistant_row].content

StampedWith(session_id) ==
    {n \in 1..Len(index) : /\ "session_id" \in DOMAIN index[n].metadata
                           /\ index[n].metadata.session_id = str(session_id)}

\* C17. Pre-filtering: when the backend answers, similarity_search(query, S, k)
\* returns min(k, n_S) entries, n_S being the number of entries stamped with S,
\* all of them stamped with S, however many entries other sessions have and
\* however near the query those are.
C17_PreFiltering ==
    (lastCall.op = "similarity_search" /\ lastCall.backend_ok) =>
        LET n_S == Cardinality(StampedWith(lastCall.session_id))
        IN  /\ Len(lastCall.results) = (IF lastCall.k < n_S THEN lastCall.k ELSE n_S)
            /\ \A n \in 1..Len(lastCall.results) :
                   lastCall.results[n].metadata.session_id = str(lastCall.session_id)

\* a search with k = 1 returned the session's one entry although an entry of
\* another session is nearer to the query
C17_Witness ==
    /\ lastCall.op = "similarity_search" /\ lastCall.backend_ok
    /\ lastCall.k = 1 /\ Len(lastCall.results) = 1
    /\ \E n \in 1..Len(index) :
        /\ n \notin StampedWith(lastCall.session_id)
        /\ Distance(lastCall.query, index[n].page_content)
               < Distance(lastCall.query, lastCall.results[1].page_content)

Unsupported(i) ==
    inv[i].upload # 0 /\ Uploads[inv[i].upload].mime_type \notin SupportedMime

\* C18. An invocation whose declared MIME type is not supported parses, chunks
\* and indexes nothing and does not return; once the type has been found
\* unsupported, it ends with the document failed and the unsupported-format
\* error raised to the caller.
C18_UnsupportedRejected ==
    \A i \in Invocations :
        Unsupported(i) =>
            /\ inv[i].pc \notin {"split", "stamp", "add_documents", "update_indexed",
                                 "returned"}
            /\ inv[i].chunks = <<>>
            /\ \A n \in 1..Len(index) : index[n].by # i
            /\ (Ended(i) /\ inv[i].cause = "unsupported") =>
                /\ inv[i].pc = "raised"
                /\ inv[i].error = "unsupported"
                /\ Status(inv[i].document) = "failed"

\* C19. No temporary file outlives the invocation that created it: when
\* ingest_document has returned or raised, on whichever path, its file is gone.
C19_TempFileDeleted ==
    \A i \in Invocations : Ended(i) => i \notin tempFiles

\* the limits get_history is asked with
Limits == 0..MaxLimit \cup {HistoryLimit}

\* C20. History is session-scoped: after every write to the history,
\* get_history(B, limit) answers only with rows that were appended with session
\* id B, and a write made by a turn of another session leaves every answer of
\* get_history(B, limit) as it was.
C20_HistorySessionScoped ==
    [][history' # history =>
        \A B \in Sessions, limit \in Limits :
            LET answers == get_history(history', B, limit)
            IN  /\ \A h \in answers :
                    \A n \in 1..Len(h) :
                        /\ h[n].id \in 1..Len(history')
                        /\ history'[h[n].id].session_id = B
                        /\ history'[h[n].id].content = h[n].content
                        /\ history'[h[n].id].role = h[n].role
                /\ (\A c \in Chats : chat'[c] # chat[c] => chat[c].session_id # B)
                       => answers = get_history(history, B, limit)]_vars

\* two turns of different sessions ran the full path interleaved, so the
\* history holds both sessions' messages alternating
C20_Witness ==
    \E c, d \in FullPathTurns :
        /\ chat[c].session_id # chat[d].session_id
        /\ chat[c].user_row < chat[d].user_row
        /\ chat[d].user_row < chat[c].assistant_row
        /\ chat[c].assistant_row < chat[d].assistant_row

\* C21. Concurrent invocations, of one session or two and of one file or two,
\* each have their own document record; a step creates or changes the record
\* and the status log only of the document of the invocation that takes it, and
\* every chunk an invocation holds or has stored carries that invocation's own
\* document id.
C21_OwnDocumentOnly ==
    [][/\ \A i, j \in Invocations :
            (i # j /\ inv'[i].document # 0) => inv'[i].document # inv'[j].document
       /\ \A d \in DOMAIN documents' :
            (d \notin DOMAIN documents \/ documents'[d] # documents[d]
                                       \/ statusLog'[d] # statusLog[d])
                => \E i \in Invocations : inv'[i] # inv[i] /\ inv'[i].document = d
       /\ \A i \in Invocations :
            /\ inv'[i].pc = "add_documents" =>
                \A n \in 1..Len(inv'[i].chunks) :
                    inv'[i].chunks[n].metadata.document_id = str(inv'[i].document)
            /\ \A n \in 1..Len(index') :
                index'[n].by = i => index'[n].metadata.document_id = str(inv'[i].document)
      ]_vars

\* two invocations ingested the same file for the same session: one failed
\* after its record was created, the other indexed its two chunks
C21_Witness ==
    \E i, j \in Invocations :
        /\ i # j
        /\ inv[i].session_id = inv[j].session_id /\ inv[i].upload = inv[j].upload
        /\ inv[i].document # 0 /\ Status(inv[i].document) = "failed"
        /\ inv[j].document # 0 /\ Status(inv[j].document) = "indexed"
        /\ Len(EntriesOf(inv[j].document)) = 2
        /\ Len(EntriesOf(inv[i].document)) = 0

\* the request of two messages: the minimal instruction and the user message
MinimalRequest(c) ==
    <<[type |-> "system", instruction |-> "minimal", context |-> <<>>],
      [type |-> "human", content |-> chat[c].user_message]>>

\* a request of the full path: its instruction is the plain or the with-context one
IsFullRequest(req) == req[1].type = "system" /\ req[1].instruction \in {"plain", "with context"}

\* C23. A turn calls the generation backend at most twice: at most once with
\* the full-path request and, after that, at most once with the fallback
\* request, which holds the minimal instruction and the current user message
\* and nothing else (no history turn, no retrieved context).
C23_FallbackMinimalTwoCalls ==
    \A c \in Chats :
        LET reqs == chat[c].requests
        IN  /\ Len(reqs) <= 2
            /\ Len(reqs) = 2 => (IsFullRequest(reqs[1]) /\ reqs[2] = MinimalRequest(c))
            /\ Len(reqs) = 1 => (IsFullRequest(reqs[1]) \/ reqs[1] = MinimalRequest(c))
            /\ chat[c].fallback # "none" =>
                (reqs # <<>> /\ reqs[Len(reqs)] = MinimalRequest(c))
            /\ chat[c].fallback = "none" => \A n \in 1..Len(reqs) : IsFullRequest(reqs[n])

\* a turn with retrieved context and a fetched history made its full-path call,
\* lost the assistant-message write and made the fallback call
C23_Witness ==
    \E c \in Chats :
        /\ chat[c].pc = "returned" /\ chat[c].failed = "add_assistant"
        /\ Len(chat[c].requests) = 2
        /\ chat[c].requests[1][1].instruction = "with context"
        /\ Len(chat[c].requests[1]) > 2
        /\ Len(chat[c].requests[2]) = 2

\* the texts of the documents, a blank line between each two
BlankLineSeparated(docs) ==
    [n \in 1..(IF docs = <<>> THEN 0 ELSE 2 * Len(docs) - 1) |->
        IF n % 2 = 1 THEN docs[(n + 1) \div 2].page_content ELSE "\n\n"]

\* C24. The context of the full-path request is the texts of the retrieved
\* chunks, nearest to the user message first as similarity_search returned them,
\* with a blank line between each two, and it is empty when nothing was
\* retrieved; the instruction is the with-context one, holding that context,
\* exactly when the context is not empty, and the plain one otherwise.
C24_ContextAndInstruction ==
    \A c \in Chats :
        FullRequestMade(c) =>
            LET docs == chat[c].relevant_docs
                system == chat[c].requests[1][1]
            IN  /\ \A n \in 1..(Len(docs) - 1) :
                       Distance(chat[c].user_message, docs[n].page_content)
                           <= Distance(chat[c].user_message, docs[n + 1].page_content)
                /\ system.context = BlankLineSeparated(docs)
                /\ docs = <<>> => system.context = <<>>
                /\ (system.instruction = "with context") <=> (system.context # <<>>)
                /\ (system.instruction = "plain") <=> (system.context = <<>>)

\* one turn retrieved two chunks, stored in the other order than they rank for
\* its message, and sent them as its context; another retrieved nothing and
\* sent the plain instruction
C24_Witness ==
    \E c, d \in Chats :
        /\ FullRequestMade(c) /\ Len(chat[c].relevant_docs) = 2
        /\ chat[c].requests[1][1].context
               = <<Vocabulary[2], "\n\n", Vocabulary[1]>>
        /\ chat[c].requests[1][1].instruction = "with context"
        /\ FullRequestMade(d) /\ chat[d].relevant_docs = <<>>
        /\ chat[d].requests[1][1].instruction = "plain"

\* the invocation leaves its finally clause with its temporary file still there
\* although it knew the file's path: os.unlink failed
UnlinkFailed(i) ==
    /\ inv[i].pc = "finally" /\ inv'[i].pc # "finally"
    /\ inv[i].temp_file_path # 0
    /\ inv[i].temp_file_path \in tempFiles'

\* C25. A failure to delete the temporary file changes nothing of the outcome:
\* the invocation returns when no error was pending (its document is indexed)
\* and raises the pending error otherwise, the same error as before the
\* cleanup, and no document's status and no index entry is touched.
C25_CleanupFailureHarmless ==
    [][\A i \in Invocations :
        UnlinkFailed(i) =>
            /\ inv'[i].error = inv[i].error
            /\ inv'[i].cause = inv[i].cause
            /\ inv'[i].pc = (IF inv[i].error = "none" THEN "returned" ELSE "raised")
            /\ inv'[i].pc = "returned" => Status(inv[i].document) = "indexed"
            /\ documents' = documents
            /\ statusLog' = statusLog
            /\ index' = index]_vars

\* one invocation returned with its document indexed and its file left behind,
\* another raised its loader error with its document failed and its file left
C25_Witness ==
    \E i, j \in Invocations :
        /\ inv[i].pc = "returned" /\ inv[i].temp_file_path \in tempFiles
        /\ Status(inv[i].document) = "indexed"
        /\ inv[j].pc = "raised" /\ inv[j].temp_file_path \in tempFiles
        /\ inv[j].error = "load" /\ Status(inv[j].document) = "failed"

\* C26. A document whose status is failed has no entry in the index, whichever
\* step of its ingestion failed.
C26_FailedLeavesNoEntries ==
    \A d \in DOMAIN documents : Status(d) = "failed" => EntriesOf(d) = <<>>

\* C27. Round trip of the session tag: once ingest_document for session S has
\* returned, a similarity_search for S with a working backend and k at least
\* the number of S's entries returns every chunk of that document, as many as
\* the chunker produced; the tag on the entries is the string the filter holds.
C27_SessionTagRoundTrip ==
    \A i \in Invocations :
        inv[i].pc = "returned" =>
            LET S == inv[i].session_id
                mine == EntriesOf(inv[i].document)
                n_S == Cardinality(StampedWith(S))
            IN  /\ Len(mine) = Len(split_documents(loader_load(inv[i].upload), i))
                /\ \A n \in 1..Len(mine) :
                       mine[n].metadata.session_id = filter_dict(S).session_id
                /\ \A q \in Queries, k \in n_S..(IF n_S > MaxK THEN n_S ELSE MaxK) :
                       LET r == similarity_search(index, q, S, k, TRUE).results
                       IN  \A n \in 1..Len(mine) : \E m \in 1..Len(r) : r[m] = mine[n]

\* an ingestion of two chunks returned while the index also holds two chunks of
\* another session
C27_Witness ==
    \E i, j \in Invocations :
        /\ inv[i].pc = "returned" /\ Len(EntriesOf(inv[i].document)) = 2
        /\ inv[j].session_id \notin {0, inv[i].session_id}
        /\ inv[j].document # 0 /\ Len(EntriesOf(inv[j].document)) = 2

\* the rows of the session with the role
RowsOf(session_id, role) ==
    {n \in 1..Len(history) : history[n].session_id = session_id /\ history[n].role = role}

\* C28. Only the full path records an assistant message: every assistant row
\* was written by a turn that completed the full path and comes after that
\* turn's own user message in the same session; a turn that returned the
\* fallback completion or the apology wrote no assistant row; so no session has
\* more assistant messages than user messages.
C28_AssistantOnlyOnFullPath ==
    /\ \A n \in AssistantRows :
        \E c \in Chats :
            /\ chat[c].assistant_row = n
            /\ chat[c].path = "full"
            /\ chat[c].user_row \in 1..(n - 1)
            /\ history[chat[c].user_row].role = "user"
            /\ history[chat[c].user_row].session_id = history[n].session_id
            /\ history[chat[c].user_row].content = chat[c].user_message
    /\ \A c \in Chats :
        chat[c].path \in {"fallback", "apology"} =>
            /\ chat[c].assistant_row = 0
            /\ \A n \in AssistantRows :
                   \E d \in Chats \ {c} : chat[d].assistant_row = n
    /\ \A s \in Sessions :
        Cardinality(RowsOf(s, "assistant")) <= Cardinality(RowsOf(s, "user"))

\* in one session a turn returned the fallback completion after its
\* assistant-message write failed and another turn completed the full path:
\* two user messages, one assistant message
C28_Witness ==
    \E c, d \in Chats :
        /\ chat[c].session_id = chat[d].session_id
        /\ chat[c].pc = "returned" /\ chat[c].path = "fallback"
        /\ chat[c].failed = "add_assistant"
        /\ chat[d].pc = "returned" /\ chat[d].path = "full"
        /\ Cardinality(RowsOf(chat[c].session_id, "user")) = 2
        /\ Cardinality(RowsOf(chat[c].session_id, "assistant")) = 1

\* the places of the document a chunk holds
Places(chunk) == {chunk[n].pos : n \in 1..Len(chunk)}

\* C22. Chunk overlap law: for every chunk_size S and chunk_overlap O < S and
\* every document text, two consecutive chunks share exactly O characters of
\* the document, except possibly the last pair.
C22_ChunkOverlapLaw ==
    lastCall.op = "split_text" =>
        \A n \in 1..(Len(lastCall.chunks) - 2) :
            Cardinality(Places(lastCall.chunks[n]) \cap Places(lastCall.chunks[n + 1]))
                = lastCall.chunk_overlap

====
